---------------------------- MODULE Spec2Model ----------------------------
(***************************************************************************)
(* Region-translation pipeline of Taro-JpTranslation-Mac:                  *)
(*   config.py, translator/ocr_engine.py, translator/qwen_translator.py,   *)
(*   translator/baidu_translator.py, translator/translate_service_server.py*)
(*                                                                         *)
(* A Python str is a sequence of one-character strings.  The fixed literal *)
(* messages of the program ("翻译失败: ", "Qwen翻译器不可用", ...) are each *)
(* one element of such a sequence, written with an ASCII name.             *)
(* A confidence is an integer number of tenths (0.5 is 5, 1.0 is 10).      *)
(***************************************************************************)
EXTENDS Integers, Sequences, FiniteSets, TLC

VARIABLES
    config,            \* module global `config` (Config instance or unset)
    ocr,               \* module global `ocr` (OCREngine instance or unset)
    qwen_translator,   \* module global `qwen_translator`
    baidu_translator,  \* module global `baidu_translator`
    pc,                \* stage of the current invocation
    result,            \* translate_region: items returned by ocr.recognize
    translations,      \* translate_region: translated strings so far
    text_blocks,       \* translate_region: its return value
    failed,            \* translate_region left through its except branch
    calls,             \* calls made to the backends or to Config (this invocation)
    out,               \* the JSON object last printed by __main__
    stdout,            \* items written to sys.stdout, oldest first
    stderr,            \* kinds of message written to sys.stderr
    built,             \* how many times each service field has been constructed
    requests           \* invocations started in this process

vars == <<config, ocr, qwen_translator, baidu_translator, pc, result,
          translations, text_blocks, failed, calls, out, stdout, stderr,
          built, requests>>

(***************************************************************************)
(* Bounds of the model.                                                    *)
(***************************************************************************)
MaxItems == 2       \* recognized items per image, texts per direct batch call
MaxLines == 2       \* lines in a language-model response
MaxRequests == 2    \* invocations per process
MaxResponse == 5    \* characters in a response given to _parse_batch_result
MaxText == 10       \* characters in a text given to _clean_translation

(***************************************************************************)
(* Python str operations.                                                  *)
(***************************************************************************)
Whitespace == {" ", "\n"}

Digits == {"0", "1", "2", "3", "4", "5", "6", "7", "8", "9"}

DigitChar(d) == <<"0", "1", "2", "3", "4", "5", "6", "7", "8", "9">>[d + 1]

RECURSIVE Str(_)
\* str(n) for n >= 0
Str(n) == IF n < 10 THEN <<DigitChar(n)>>
          ELSE Str(n \div 10) \o <<DigitChar(n % 10)>>

RECURSIVE LStrip(_)
LStrip(s) == IF s # <<>> /\ Head(s) \in Whitespace THEN LStrip(Tail(s)) ELSE s

RECURSIVE RStrip(_)
RStrip(s) == IF s # <<>> /\ s[Len(s)] \in Whitespace
             THEN RStrip(SubSeq(s, 1, Len(s) - 1)) ELSE s

\* str.strip()
Strip(s) == RStrip(LStrip(s))

\* `not text or not text.strip()`
IsBlank(s) == s = <<>> \/ Strip(s) = <<>>

IsPrefixAt(s, sep, i) ==
    /\ i + Len(sep) - 1 <= Len(s)
    /\ \A k \in 1..Len(sep) : s[i + k - 1] = sep[k]

\* str.find(sep) + 1: position of the first occurrence of sep, 0 when absent
Find(s, sep) ==
    IF \E i \in 1..Len(s) : IsPrefixAt(s, sep, i)
    THEN CHOOSE i \in 1..Len(s) :
            /\ IsPrefixAt(s, sep, i)
            /\ \A j \in 1..(i - 1) : ~IsPrefixAt(s, sep, j)
    ELSE 0

\* `sep in s`
Contains(s, sep) == Find(s, sep) # 0

RECURSIVE Split(_, _)
\* str.split(sep)
Split(s, sep) ==
    LET i == Find(s, sep)
    IN IF i = 0 THEN <<s>>
       ELSE <<SubSeq(s, 1, i - 1)>> \o Split(SubSeq(s, i + Len(sep), Len(s)), sep)

\* str.split(sep, 1)
Split1(s, sep) ==
    LET i == Find(s, sep)
    IN IF i = 0 THEN <<s>>
       ELSE <<SubSeq(s, 1, i - 1), SubSeq(s, i + Len(sep), Len(s))>>

RECURSIVE Join(_, _)
\* sep.join(parts)
Join(parts, sep) ==
    IF parts = <<>> THEN <<>>
    ELSE IF Len(parts) = 1 THEN parts[1]
    ELSE parts[1] \o sep \o Join(Tail(parts), sep)

\* [x] * n
Repeat(x, n) == [i \in 1..n |-> x]

\* seq[:n]
Take(seq, n) == SubSeq(seq, 1, IF n < Len(seq) THEN n ELSE Len(seq))


(***************************************************************************)
(* Optional values: None, and Some(v) for a value that is not None.        *)
(***************************************************************************)
None == [some |-> FALSE]

Some(v) == [some |-> TRUE, val |-> v]

\* Python truth value of an Optional[str]
Truthy(o) == o.some /\ o.val # <<>>

(***************************************************************************)
(* qwen_translator.py                                                      *)
(***************************************************************************)
\* "Qwen翻译器不可用"
MsgQwenUnavailable == <<"[Qwen translator unavailable]">>

\* f"翻译失败: {text}"
MsgTranslateFailed(text) == <<"[translation failed]: ">> \o text

\* "翻译结果不完整"
MsgIncomplete == <<"[translation result incomplete]">>

\* What the Ollama installation is at construction time.
OllamaStates == {"not_installed", "list_raises", "model_missing", "model_present"}

\* QwenTranslator._check_ollama
CheckOllama(state) == state = "model_present"

\* QwenTranslator.__init__
QwenTranslator(state) == [set |-> TRUE, available |-> CheckOllama(state)]

\* QwenTranslator._call_ollama: the outcome of ollama.chat is an exception
\* or a message content
CallOllama(outcome) ==
    IF outcome.kind = "raises" THEN None ELSE Some(Strip(outcome.content))

\* QwenTranslator._clean_translation
CleanTranslation(text) ==
    LET ellipsis == <<".", ".", ".">>
        parts == Split(text, ellipsis)
    IN IF Contains(text, ellipsis) /\ Len(parts) > 1 /\ Len(parts[2]) > 5
       THEN Strip(parts[1])
       ELSE Strip(text)

\* the empty-text test is missing: an empty text is sent to the model
QwenTranslate_NoBlankCheck(self, text, outcome) ==
    IF ~self.available THEN [ret |-> MsgQwenUnavailable, prompts |-> <<>>]
    ELSE LET called == CallOllama(outcome)
         IN [ret |-> IF Truthy(called) THEN called.val ELSE MsgTranslateFailed(text),
             prompts |-> <<text>>]

\* QwenTranslator.translate: the value returned and the prompts sent
QwenTranslate(self, text, outcome) ==
    IF ~self.available THEN [ret |-> MsgQwenUnavailable, prompts |-> <<>>]
    ELSE IF IsBlank(text) THEN [ret |-> <<>>, prompts |-> <<>>]
    ELSE LET called == CallOllama(outcome)
             cleaned == IF Truthy(called) THEN Some(CleanTranslation(called.val))
                        ELSE called
         IN [ret |-> IF Truthy(cleaned) THEN cleaned.val
                     ELSE MsgTranslateFailed(text),
             prompts |-> <<text>>]

\* translate_batch: [(i, t) for i, t in enumerate(texts) if t and t.strip()]
NonEmptyTexts(texts) ==
    LET indexed == [i \in 1..Len(texts) |-> <<i - 1, texts[i]>>]
        Keep(p) == ~IsBlank(p[2])
    IN SelectSeq(indexed, Keep)

\* translate_batch: "\n".join([f"{i+1}. {t}" for i, t in non_empty_texts])
NumberedTexts(non_empty_texts) ==
    Join([k \in 1..Len(non_empty_texts) |->
             Str(non_empty_texts[k][1] + 1) \o <<".", " ">> \o non_empty_texts[k][2]],
         <<"\n">>)

\* _parse_batch_result: what one line of the response adds to `translations`
ParseLine(raw) ==
    LET line == Strip(raw)
    IN IF line = <<>> THEN <<>>
       ELSE IF line[1] \in Digits /\ Contains(line, <<".", " ">>)
       THEN <<CleanTranslation(Strip(Split1(line, <<".", " ">>)[2]))>>
       ELSE <<CleanTranslation(line)>>

RECURSIVE ParseLines(_)
ParseLines(lines) ==
    IF lines = <<>> THEN <<>> ELSE ParseLine(Head(lines)) \o ParseLines(Tail(lines))

\* the extras are not dropped: every parsed result is returned
ParseBatchResult_NoTruncation(response, expected_count) ==
    LET parsed == ParseLines(Split(Strip(response), <<"\n">>))
    IN IF Len(parsed) < expected_count
       THEN parsed \o Repeat(MsgIncomplete, expected_count - Len(parsed))
       ELSE parsed

\* QwenTranslator._parse_batch_result
ParseBatchResult(response, expected_count) ==
    LET parsed == ParseLines(Split(Strip(response), <<"\n">>))
        padded == IF Len(parsed) < expected_count
                  THEN parsed \o Repeat(MsgIncomplete, expected_count - Len(parsed))
                  ELSE parsed
    IN Take(padded, expected_count)

\* translate_batch: final_results[orig_idx] = trans over zip(non_empty_texts, translations)
MapBack(n, non_empty_texts, parsed) ==
    LET m == IF Len(parsed) < Len(non_empty_texts) THEN Len(parsed)
             ELSE Len(non_empty_texts)
    IN [i \in 1..n |->
          IF \E k \in 1..m : non_empty_texts[k][1] = i - 1
          THEN parsed[CHOOSE k \in 1..m : non_empty_texts[k][1] = i - 1]
          ELSE <<>>]

\* QwenTranslator.translate_batch: the value returned and the prompts sent
QwenTranslateBatch(self, texts, outcome) ==
    IF ~self.available
    THEN [ret |-> Repeat(MsgQwenUnavailable, Len(texts)), prompts |-> <<>>]
    ELSE IF texts = <<>> THEN [ret |-> <<>>, prompts |-> <<>>]
    ELSE LET non_empty_texts == NonEmptyTexts(texts)
             prompt == NumberedTexts(non_empty_texts)
             called == CallOllama(outcome)
         IN IF non_empty_texts = <<>>
            THEN [ret |-> Repeat(<<>>, Len(texts)), prompts |-> <<>>]
            ELSE IF ~Truthy(called)
            THEN [ret |-> [k \in 1..Len(non_empty_texts) |->
                             MsgTranslateFailed(non_empty_texts[k][2])],
                  prompts |-> <<prompt>>]
            ELSE [ret |-> MapBack(Len(texts), non_empty_texts,
                                  ParseBatchResult(called.val, Len(non_empty_texts))),
                  prompts |-> <<prompt>>]

(***************************************************************************)
(* baidu_translator.py                                                     *)
(***************************************************************************)
\* "请先配置百度翻译API密钥"
MsgNotConfigured == <<"[configure the Baidu API key first]">>

\* "翻译失败"
MsgBaiduFailed == <<"[translation failed]">>

\* BaiduTranslator.__init__
BaiduTranslator(appid, secret_key) ==
    [set |-> TRUE, appid |-> appid, secret_key |-> secret_key]

\* BaiduTranslator._get_error_message
GetErrorMessage(error_code) ==
    LET known == {"52001", "52002", "52003", "54000", "54001", "54003",
                  "54004", "54005", "58000"}
    IN IF error_code \in known THEN <<"[error ", error_code, "]">>
       ELSE <<"[unknown error code]: ", error_code>>

\* the credential test is missing: the request is sent with empty credentials
BaiduTranslate_NoCredentialCheck(self, text, reply) ==
    IF IsBlank(text) THEN [ret |-> <<>>, requests |-> 0]
    ELSE [requests |-> 1,
          ret |-> IF reply.kind = "trans_result" THEN Join(reply.dst, <<"\n">>)
                  ELSE MsgBaiduFailed]

\* BaiduTranslator.translate: the value returned and the number of HTTP requests
BaiduTranslate(self, text, reply) ==
    IF self.appid = "" \/ self.secret_key = ""
    THEN [ret |-> MsgNotConfigured, requests |-> 0]
    ELSE IF IsBlank(text) THEN [ret |-> <<>>, requests |-> 0]
    ELSE [requests |-> 1,
          ret |-> CASE reply.kind = "trans_result" -> Join(reply.dst, <<"\n">>)
                    [] reply.kind = "error_code" ->
                          <<"[translation error]: ">> \o GetErrorMessage(reply.code)
                    [] reply.kind = "other" -> MsgBaiduFailed
                    [] reply.kind = "raises" -> <<"[translation exception]: ", "e">>]

(***************************************************************************)
(* config.py                                                               *)
(***************************************************************************)
\* Config.load_config: the configuration and what it prints.  env holds
\* BAIDU_APPID and BAIDU_SECRET_KEY ("" when not set); file is config.json:
\* absent, unreadable, or the object it holds ("" for a key it does not hold).
LoadConfig(env, file) ==
    LET useFile == file.state = "loaded"
        appid == IF useFile /\ file.baidu_appid # "" THEN file.baidu_appid
                 ELSE env.appid
        secret == IF useFile /\ file.baidu_secret_key # "" THEN file.baidu_secret_key
                  ELSE env.secret_key
        language == IF useFile /\ file.ocr_language # "" THEN file.ocr_language
                    ELSE "japan"
    IN [config |-> [set |-> TRUE, baidu_appid |-> appid, baidu_secret_key |-> secret,
                    ocr_language |-> language],
        printed |-> (IF file.state = "unreadable" THEN <<"config: load failed">>
                     ELSE <<>>)
                    \o (IF appid = "" \/ secret = ""
                        THEN <<"config: key warning", "config: key warning",
                               "config: key warning">>
                        ELSE <<>>)]

(***************************************************************************)
(* ocr_engine.py                                                           *)
(***************************************************************************)
\* translate_service_server.py: OCREngine(..., confidence_threshold=0.5)
ConfidenceThreshold == 5

\* OCREngine._init_ocr: each library is missing, fails to start, or starts
InitOcr(easyocr, paddleocr) ==
    IF easyocr = "starts" THEN "easyocr"
    ELSE IF paddleocr = "starts" THEN "paddleocr"
    ELSE "none"

\* OCREngine.__init__
OCREngine(easyocr, paddleocr, confidence_threshold) ==
    [set |-> TRUE, ocr_type |-> InitOcr(easyocr, paddleocr),
     confidence_threshold |-> confidence_threshold]

Item(text, confidence, box) == [text |-> text, confidence |-> confidence, box |-> box]

\* OCREngine._recognize_easyocr: raw is what readtext returned
RecognizeEasyocr(self, raw) ==
    LET Keep(r) == ~(r.confidence < self.confidence_threshold)
        kept == SelectSeq(raw, Keep)
    IN [k \in 1..Len(kept) |-> Item(kept[k].text, kept[k].confidence, kept[k].box)]

\* OCREngine._recognize_paddleocr: raw is result[0] of what ocr returned
RecognizePaddleocr(self, raw) ==
    LET Keep(r) == r.shape \in {"pair", "str"}
        kept == SelectSeq(raw, Keep)
    IN [k \in 1..Len(kept) |->
          Item(kept[k].text,
               IF kept[k].shape = "str" THEN 10 ELSE kept[k].confidence,
               kept[k].box)]

\* OCREngine.recognize
Recognize(self, image_loads, engine_raises, raw) ==
    IF self.ocr_type = "none" THEN <<>>
    ELSE IF ~image_loads \/ engine_raises THEN <<>>
    ELSE IF self.ocr_type = "easyocr" THEN RecognizeEasyocr(self, raw)
    ELSE IF self.ocr_type = "paddleocr" THEN RecognizePaddleocr(self, raw)
    ELSE <<>>

(***************************************************************************)
(* Inputs of the model.                                                    *)
(***************************************************************************)
\* texts an engine can recognize, or a caller can pass to a backend
Texts == {<<>>, <<" ">>, <<"a">>, <<"b">>}

\* lists of at most n elements of S
ListsUpTo(S, n) == UNION {[1..k -> S] : k \in 0..n}

\* the polygon of a recognized item
Quad == <<<<5, 5>>, <<25, 5>>, <<25, 15>>, <<5, 15>>>>

\* (bbox, text, confidence) tuples of EasyOCR
EasyocrRaw ==
    {[shape |-> "pair", text |-> t, confidence |-> c, box |-> Quad] :
        t \in {<<>>, <<"a">>}, c \in {4, 5}}

\* lines of PaddleOCR: [box, (text, confidence)], [box, text], or another shape
PaddleocrRaw ==
    {[shape |-> "pair", text |-> <<"a">>, confidence |-> 4, box |-> Quad],
     [shape |-> "pair", text |-> <<>>, confidence |-> 5, box |-> Quad],
     [shape |-> "str", text |-> <<"b">>, confidence |-> 0, box |-> Quad],
     [shape |-> "other", text |-> <<>>, confidence |-> 0, box |-> Quad]}

\* one line of a language-model response: number n > 0 gives "n. body",
\* number 0 gives the body alone
FormatLine(l) == IF l.number = 0 THEN l.body ELSE Str(l.number) \o <<".", " ">> \o l.body

ResponseLines ==
    {[number |-> 1, body |-> <<"x">>], [number |-> 2, body |-> <<"y">>],
     [number |-> 0, body |-> <<"z">>], [number |-> 0, body |-> <<>>]}

\* the content of a response made of the given lines
Content(lines) == Join([k \in 1..Len(lines) |-> FormatLine(lines[k])], <<"\n">>)

Raises == [kind |-> "raises"]

Says(lines) == [kind |-> "content", lines |-> lines, content |-> Content(lines)]

\* outcomes of ollama.chat for a direct call of a backend
Outcomes == {Raises} \cup {Says(ls) : ls \in ListsUpTo(ResponseLines, MaxLines)}

\* outcomes of ollama.chat within a request of the pipeline
L1 == [number |-> 1, body |-> <<"x">>]

L2 == [number |-> 2, body |-> <<"y">>]

PipelineOutcomes == {Raises, Says(<<>>), Says(<<L1>>), Says(<<L1, L2>>), Says(<<L2, L1>>)}

\* replies of the Baidu API to one request
Replies ==
    {[kind |-> "trans_result", dst |-> <<<<"x">>>>],
     [kind |-> "trans_result", dst |-> <<<<"x">>, <<"y">>>>],
     [kind |-> "error_code", code |-> "54003"],
     [kind |-> "error_code", code |-> "90000"],
     [kind |-> "other"], [kind |-> "raises"]}

\* replies of the Baidu API within a request of the pipeline
PipelineReplies ==
    {[kind |-> "trans_result", dst |-> <<<<"x">>, <<"y">>>>],
     [kind |-> "error_code", code |-> "54003"],
     [kind |-> "raises"]}

\* BAIDU_APPID, BAIDU_SECRET_KEY and config.json as a process finds them
Environments ==
    {[env |-> [appid |-> "", secret_key |-> ""], file |-> [state |-> "absent"]],
     [env |-> [appid |-> "", secret_key |-> ""], file |-> [state |-> "unreadable"]],
     [env |-> [appid |-> "env-id", secret_key |-> "env-key"], file |-> [state |-> "absent"]],
     [env |-> [appid |-> "env-id", secret_key |-> ""],
      file |-> [state |-> "loaded", baidu_appid |-> "", baidu_secret_key |-> "file-key",
                ocr_language |-> ""]]}

LibraryStates == {"missing", "fails", "starts"}

(***************************************************************************)
(* translate_service_server.py                                             *)
(***************************************************************************)
Unset == [set |-> FALSE]

Init ==
    /\ config = Unset
    /\ ocr = Unset
    /\ qwen_translator = Unset
    /\ baidu_translator = Unset
    /\ pc = "Idle"
    /\ result = <<>>
    /\ translations = <<>>
    /\ text_blocks = <<>>
    /\ failed = FALSE
    /\ calls = <<>>
    /\ out = Unset
    /\ stdout = <<>>
    /\ stderr = {}
    /\ built = [config |-> 0, qwen_translator |-> 0, baidu_translator |-> 0, ocr |-> 0]
    /\ requests = 0

services == <<config, ocr, qwen_translator, baidu_translator, built>>

locals == <<result, translations, text_blocks, failed, calls>>

\* __main__ with fewer than five arguments: the usage error, exit status 1
MainTooFewArguments ==
    /\ pc = "Idle"
    /\ requests < MaxRequests
    /\ requests' = requests + 1
    /\ stdout' = Append(stdout, "usage error")
    /\ pc' = "Exited"
    /\ UNCHANGED <<services, locals, out, stderr>>

\* __main__ with an x, y, width or height that int() rejects: ValueError
\* outside any try, the interpreter prints the traceback and exits
MainBadInteger ==
    /\ pc = "Idle"
    /\ requests < MaxRequests
    /\ requests' = requests + 1
    /\ stderr' = stderr \cup {"traceback"}
    /\ pc' = "Crashed"
    /\ UNCHANGED <<services, locals, out, stdout>>

\* __main__ with five arguments: translate_region is entered
MainCall ==
    /\ pc = "Idle"
    /\ requests < MaxRequests
    /\ requests' = requests + 1
    /\ pc' = "Initializing"
    /\ result' = <<>>
    /\ translations' = <<>>
    /\ text_blocks' = <<>>
    /\ failed' = FALSE
    /\ calls' = <<>>
    /\ out' = Unset
    /\ UNCHANGED <<services, stdout, stderr>>

\* the `is None` test is missing: the field is constructed on every call
IsNone_Always(field) == TRUE

\* init_services: `if config is None`, `if ocr is None`, ...
IsNone(field) == ~field.set

\* init_services, stopped by an unexpected exception after `steps` of its four
\* blocks (steps = 4: it returns).  Each block constructs its field if unset.
InitServicesSteps(steps, e, ollama, easyocr, paddleocr) ==
    LET doConfig == steps >= 1 /\ IsNone(config)
        doQwen == steps >= 2 /\ IsNone(qwen_translator)
        doBaidu == steps >= 3 /\ IsNone(baidu_translator)
        doOcr == steps >= 4 /\ IsNone(ocr)
        loaded == LoadConfig(e.env, e.file)
        cfg == IF doConfig THEN loaded.config ELSE config
    IN /\ config' = cfg
       /\ stdout' = IF doConfig THEN stdout \o loaded.printed ELSE stdout
       /\ qwen_translator' = IF doQwen THEN QwenTranslator(ollama) ELSE qwen_translator
       /\ baidu_translator' =
             IF doBaidu THEN BaiduTranslator(cfg.baidu_appid, cfg.baidu_secret_key)
             ELSE baidu_translator
       /\ ocr' = IF doOcr THEN OCREngine(easyocr, paddleocr, ConfidenceThreshold)
                 ELSE ocr
       /\ built' = [config |-> built.config + (IF doConfig THEN 1 ELSE 0),
                    qwen_translator |-> built.qwen_translator + (IF doQwen THEN 1 ELSE 0),
                    baidu_translator |-> built.baidu_translator + (IF doBaidu THEN 1 ELSE 0),
                    ocr |-> built.ocr + (IF doOcr THEN 1 ELSE 0)]
       /\ stderr' = stderr \cup {"init_services"}

\* translate_region: the except branch
Except ==
    /\ pc' = "Failed"
    /\ failed' = TRUE
    /\ text_blocks' = <<>>

\* translate_region: init_services() returns
InitServices ==
    /\ pc = "Initializing"
    /\ \E e \in Environments, ollama \in OllamaStates,
          easyocr \in LibraryStates, paddleocr \in LibraryStates :
          InitServicesSteps(4, e, ollama, easyocr, paddleocr)
    /\ pc' = "Recognizing"
    /\ UNCHANGED <<locals, out, requests>>

\* translate_region: init_services() raises
InitServicesRaises ==
    /\ pc = "Initializing"
    /\ \E steps \in 0..3, e \in Environments, ollama \in OllamaStates :
          InitServicesSteps(steps, e, ollama, "missing", "missing")
    /\ Except
    /\ UNCHANGED <<result, translations, calls, out, requests>>

\* the early return is missing: an empty result goes on to translation
AfterRecognize_NoEarlyReturn(items) == "SelectingBackend"

\* translate_region: `if not result: return []`
AfterRecognize(items) == IF items = <<>> THEN "Done" ELSE "SelectingBackend"

\* translate_region: ocr.recognize(screenshot_path, preprocess=False) and the
\* `if not result` test
RecognizeStep ==
    /\ pc = "Recognizing"
    /\ \E image_loads \in BOOLEAN, engine_raises \in BOOLEAN,
          raw \in ListsUpTo(IF ocr.ocr_type = "paddleocr" THEN PaddleocrRaw
                            ELSE EasyocrRaw, MaxItems) :
          result' = Recognize(ocr, image_loads, engine_raises, raw)
    /\ pc' = AfterRecognize(result')
    /\ text_blocks' = IF pc' = "Done" THEN <<>> ELSE text_blocks
    /\ stderr' = stderr \cup {"recognize"}
    /\ UNCHANGED <<services, translations, failed, calls, out, stdout, requests>>

\* the availability flag is not read: the batch backend is used once it exists
UseBatchBackend_IgnoresFlag == qwen_translator.set

\* translate_region: `qwen_translator and qwen_translator.available`
UseBatchBackend == qwen_translator.set /\ qwen_translator.available

\* translate_region: the choice of the backend
SelectBackend ==
    /\ pc = "SelectingBackend"
    /\ pc' = IF UseBatchBackend THEN "TranslatingBatch" ELSE "TranslatingRemote"
    /\ translations' = <<>>
    /\ stderr' = stderr \cup {"translate"}
    /\ UNCHANGED <<services, result, text_blocks, failed, calls, out, stdout, requests>>

\* [item['text'] for item in result]
ItemTexts(items) == [k \in 1..Len(items) |-> items[k].text]

\* translate_region: qwen_translator.translate_batch(texts, fix_ocr=True)
TranslateBatchStep ==
    /\ pc = "TranslatingBatch"
    /\ \E outcome \in PipelineOutcomes :
          LET texts == ItemTexts(result)
              done == QwenTranslateBatch(qwen_translator, texts, outcome)
          IN /\ translations' = done.ret
             /\ calls' = Append(calls, [op |-> "translate_batch", arg |-> texts,
                                        ret |-> done.ret, prompts |-> done.prompts,
                                        requests |-> 0, outcome |-> outcome])
    /\ pc' = "Merging"
    /\ UNCHANGED <<services, result, text_blocks, failed, out, stdout, stderr, requests>>

\* translate_region: one turn of `for item in result`, baidu_translator.translate
TranslateRemoteStep ==
    /\ pc = "TranslatingRemote"
    /\ Len(translations) < Len(result)
    /\ \E reply \in PipelineReplies :
          LET text == result[Len(translations) + 1].text
              done == BaiduTranslate(baidu_translator, text, reply)
          IN /\ translations' = Append(translations, done.ret)
             /\ calls' = Append(calls, [op |-> "baidu.translate", arg |-> text,
                                        ret |-> done.ret, prompts |-> <<>>,
                                        requests |-> done.requests, outcome |-> reply])
    /\ pc' = IF Len(translations') = Len(result) THEN "Merging" ELSE "TranslatingRemote"
    /\ UNCHANGED <<services, result, text_blocks, failed, out, stdout, stderr, requests>>

Min(S) == CHOOSE m \in S : \A n \in S : m <= n

Max(S) == CHOOSE m \in S : \A n \in S : n <= m

\* translate_region: one text block
TextBlock(item, translated) ==
    LET xs == {item.box[k][1] : k \in 1..Len(item.box)}
        ys == {item.box[k][2] : k \in 1..Len(item.box)}
    IN [x |-> Min(xs), y |-> Min(ys), width |-> Max(xs) - Min(xs),
        height |-> Max(ys) - Min(ys), original |-> item.text,
        translated |-> translated, confidence |-> item.confidence]

\* translate_region: for item, translated in zip(result, translations)
Zip(items, translated) ==
    LET n == IF Len(items) < Len(translated) THEN Len(items) ELSE Len(translated)
    IN [k \in 1..n |-> TextBlock(items[k], translated[k])]

\* translate_region: the text blocks are built and returned
MergeStep ==
    /\ pc = "Merging"
    /\ text_blocks' = Zip(result, translations)
    /\ pc' = "Done"
    /\ stderr' = stderr \cup {"done"}
    /\ UNCHANGED <<services, result, translations, failed, calls, out, stdout, requests>>

\* translate_region: an unexpected exception after init_services
UnexpectedException ==
    /\ pc \in {"Recognizing", "SelectingBackend", "TranslatingBatch",
               "TranslatingRemote", "Merging"}
    /\ Except
    /\ stderr' = stderr \cup {"translate_region failed", "traceback"}
    /\ UNCHANGED <<services, result, translations, calls, out, stdout, requests>>

\* __main__: result = {'success': True, 'textBlocks': text_blocks}
ResultJson(blocks) == [set |-> TRUE, success |-> TRUE, textBlocks |-> blocks]

\* __main__: print(json.dumps(result)) after translate_region returned
PrintResult ==
    /\ pc \in {"Done", "Failed"}
    /\ out' = ResultJson(text_blocks)
    /\ stdout' = Append(stdout, "result")
    /\ pc' = "Idle"
    /\ UNCHANGED <<services, locals, stderr, requests>>

Next ==
    \/ MainTooFewArguments
    \/ MainBadInteger
    \/ MainCall
    \/ InitServices
    \/ InitServicesRaises
    \/ RecognizeStep
    \/ SelectBackend
    \/ TranslateBatchStep
    \/ TranslateRemoteStep
    \/ MergeStep
    \/ UnexpectedException
    \/ PrintResult

Spec == Init /\ [][Next]_vars

(***************************************************************************)
(* The backends called directly: a caller constructs the two translators   *)
(* and calls one method; `calls` holds that call.                          *)
(***************************************************************************)
NewQwenTranslator ==
    /\ ~qwen_translator.set
    /\ \E ollama \in OllamaStates : qwen_translator' = QwenTranslator(ollama)
    /\ built' = [built EXCEPT !.qwen_translator = @ + 1]
    /\ UNCHANGED <<config, ocr, baidu_translator, pc, locals, out, stdout, stderr,
                   requests>>

NewBaiduTranslator ==
    /\ ~baidu_translator.set
    /\ \E appid \in {"", "id"}, secret_key \in {"", "key"} :
          baidu_translator' = BaiduTranslator(appid, secret_key)
    /\ built' = [built EXCEPT !.baidu_translator = @ + 1]
    /\ UNCHANGED <<config, ocr, qwen_translator, pc, locals, out, stdout, stderr,
                   requests>>

Called(op, arg, done, outcome) ==
    /\ calls' = <<[op |-> op, arg |-> arg, ret |-> done.ret, prompts |-> done.prompts,
                   requests |-> done.requests, outcome |-> outcome]>>
    /\ UNCHANGED <<services, pc, result, translations, text_blocks, failed, out,
                   stdout, stderr, requests>>

CallQwenTranslateBatch ==
    /\ qwen_translator.set
    /\ calls = <<>>
    /\ \E texts \in ListsUpTo(Texts, MaxItems), outcome \in Outcomes :
          LET done == QwenTranslateBatch(qwen_translator, texts, outcome)
          IN Called("translate_batch", texts,
                    [ret |-> done.ret, prompts |-> done.prompts, requests |-> 0],
                    outcome)

CallQwenTranslate ==
    /\ qwen_translator.set
    /\ calls = <<>>
    /\ \E text \in Texts, outcome \in Outcomes :
          LET done == QwenTranslate(qwen_translator, text, outcome)
          IN Called("qwen.translate", text,
                    [ret |-> done.ret, prompts |-> done.prompts, requests |-> 0],
                    outcome)

CallBaiduTranslate ==
    /\ baidu_translator.set
    /\ calls = <<>>
    /\ \E text \in Texts, reply \in Replies :
          LET done == BaiduTranslate(baidu_translator, text, reply)
          IN Called("baidu.translate", text,
                    [ret |-> done.ret, prompts |-> <<>>, requests |-> done.requests],
                    reply)

NextBackend ==
    \/ NewQwenTranslator
    \/ NewBaiduTranslator
    \/ CallQwenTranslateBatch
    \/ CallQwenTranslate
    \/ CallBaiduTranslate

SpecBackend == Init /\ [][NextBackend]_vars

(***************************************************************************)
(* Properties.                                                             *)
(***************************************************************************)
BatchCalls == {k \in 1..Len(calls) : calls[k].op = "translate_batch"}

\* C1: translate_batch(texts) returns exactly len(texts) strings and every
\* position whose input was empty or whitespace-only holds the empty string,
\* whatever the language model answered and whether or not the translator is
\* available.
C1_BatchLengthAndBlanks ==
    \A k \in BatchCalls :
        /\ Len(calls[k].ret) = Len(calls[k].arg)
        /\ \A i \in 1..Len(calls[k].arg) :
              IsBlank(calls[k].arg[i]) => calls[k].ret[i] = <<>>

\* C2: a request that does not end in Failed returns one block per recognized
\* item, in the same order, each carrying a translated string.
C2_OneBlockPerItem ==
    (pc = "Done" /\ ~failed) =>
        /\ Len(text_blocks) = Len(result)
        /\ \A k \in 1..Len(text_blocks) :
              /\ text_blocks[k].original = result[k].text
              /\ text_blocks[k].translated = translations[k]

\* the positions of the response lines that carry number n
LinesNumbered(lines, n) == {j \in 1..Len(lines) : lines[j].number = n}

\* C3: in translate_batch the string at output position i is the response
\* line carrying the number that text i was given in the prompt (i + 1).
C3_Alignment ==
    \A k \in BatchCalls :
        LET c == calls[k]
        IN (c.prompts # <<>> /\ c.outcome.kind = "content") =>
              \A i \in 1..Len(c.arg) :
                 \A j \in LinesNumbered(c.outcome.lines, i) :
                    (~IsBlank(c.arg[i]) /\ Cardinality(LinesNumbered(c.outcome.lines, i)) = 1
                     /\ i <= Len(c.ret))
                    => c.ret[i] = CleanTranslation(Strip(c.outcome.lines[j].body))

\* C4: every item returned by OCREngine.recognize has a confidence of at
\* least the threshold, with EasyOCR and with PaddleOCR, and so has every
\* block of the output.
C4_ConfidenceFiltered ==
    /\ \A k \in 1..Len(result) : result[k].confidence >= ocr.confidence_threshold
    /\ \A k \in 1..Len(text_blocks) :
          text_blocks[k].confidence >= ocr.confidence_threshold

\* C5: when an unexpected exception occurs in translate_region, it returns an
\* empty list and the JSON object printed has success = false.
C5_FailureReported ==
    (pc = "Idle" /\ out.set /\ failed) =>
        /\ text_blocks = <<>>
        /\ out.success = FALSE

Unconfigured(b) == b.appid = "" \/ b.secret_key = ""

\* the current request has left translate_region by its return statement
Returned == pc = "Done" \/ (pc = "Idle" /\ out.set /\ ~failed)

\* C6: with the batch backend unavailable and no credentials for the remote
\* backend, a request with n >= 1 recognized items makes no network call and no
\* model call, never enters the batch backend, and returns n blocks whose
\* translated field is the "configure the API key" literal; the JSON printed
\* has success = true and those n blocks.
C6_FallbackWithoutBackends ==
    (/\ Len(result) >= 1
     /\ ~qwen_translator.available
     /\ Unconfigured(baidu_translator)) =>
        /\ pc # "TranslatingBatch"
        /\ \A k \in 1..Len(calls) :
              /\ calls[k].op = "baidu.translate"
              /\ calls[k].requests = 0
              /\ calls[k].prompts = <<>>
        /\ Returned =>
              /\ Len(text_blocks) = Len(result)
              /\ \A k \in 1..Len(text_blocks) :
                    text_blocks[k].translated = MsgNotConfigured
        /\ (pc = "Idle" /\ out.set /\ ~failed) =>
              /\ out.success = TRUE
              /\ out.textBlocks = text_blocks

C6_Witness ==
    /\ pc = "Idle" /\ out.set /\ ~failed
    /\ ~qwen_translator.available
    /\ Unconfigured(baidu_translator)
    /\ Len(result) >= 2
    /\ Len(out.textBlocks) = Len(result)
    /\ Len(calls) = Len(result)

\* C7: when recognition returns an empty sequence the request goes from
\* Recognizing directly to Done with an empty list and no backend call, and the
\* JSON printed is success = true with an empty textBlocks list.
C7_EmptyRecognitionIsDone ==
    /\ [][(pc = "Recognizing" /\ pc' # "Recognizing" /\ ~failed' /\ result' = <<>>)
            => (pc' = "Done" /\ text_blocks' = <<>> /\ calls' = <<>>)]_vars
    /\ []((result = <<>> /\ pc \notin {"Initializing", "Recognizing"}) =>
            /\ calls = <<>>
            /\ pc \in {"Idle", "Exited", "Crashed", "Done", "Failed"}
            /\ (pc = "Idle" /\ out.set) => out = ResultJson(<<>>))

C7_Witness ==
    /\ pc = "Idle" /\ out.set /\ ~failed
    /\ result = <<>>
    /\ ocr.ocr_type # "none"
    /\ out = ResultJson(<<>>)

SingleCalls == {k \in 1..Len(calls) : calls[k].op \in {"qwen.translate", "baidu.translate"}}

\* C9 as stated: for each backend, translate of an empty or whitespace-only
\* text returns the empty string and makes no call to the external dependency.
C9_BlankReturnsEmpty ==
    \A k \in SingleCalls :
        IsBlank(calls[k].arg) =>
            /\ calls[k].ret = <<>>
            /\ calls[k].prompts = <<>>
            /\ calls[k].requests = 0

\* C9 amended: translate of an empty or whitespace-only text never calls the
\* external dependency; it returns the empty string when the backend is usable
\* (QwenTranslator available, BaiduTranslator with both credentials) and the
\* backend's "unavailable" / "configure the key" literal otherwise.
C9_BlankMakesNoCall ==
    \A k \in SingleCalls :
        IsBlank(calls[k].arg) =>
            /\ calls[k].prompts = <<>>
            /\ calls[k].requests = 0
            /\ calls[k].ret =
                  IF calls[k].op = "qwen.translate"
                  THEN (IF qwen_translator.available THEN <<>> ELSE MsgQwenUnavailable)
                  ELSE (IF Unconfigured(baidu_translator) THEN MsgNotConfigured
                        ELSE <<>>)

C9_Witness ==
    /\ Len(calls) = 1
    /\ calls[1].op = "qwen.translate"
    /\ calls[1].arg = <<" ">>
    /\ qwen_translator.available
    /\ calls[1].ret = <<>>

\* C10: standard output receives one item per invocation with five arguments,
\* the result JSON object, and no message of any component.
C10_StdoutOnlyResult ==
    /\ \A k \in 1..Len(stdout) : stdout[k] \in {"result", "usage error"}
    /\ pc = "Idle" => Cardinality({k \in 1..Len(stdout) : stdout[k] = "result"}) = requests

\* the four fields of the service context
Fields == <<config, qwen_translator, baidu_translator, ocr>>

\* C11: over the invocations of one process each service field (config, batch
\* backend, remote backend, OCR adapter) is constructed at most once, is set
\* exactly when it has been constructed, is set once init_services has
\* returned, and once set is never replaced or reset by a later init_services.
C11_FieldsSetOnce ==
    /\ [](/\ \A f \in DOMAIN built : built[f] <= 1
          /\ config.set <=> built.config = 1
          /\ qwen_translator.set <=> built.qwen_translator = 1
          /\ baidu_translator.set <=> built.baidu_translator = 1
          /\ ocr.set <=> built.ocr = 1
          /\ (requests >= 1 /\ pc \notin {"Initializing", "Exited", "Crashed"} /\ ~failed)
                => \A i \in 1..4 : Fields[i].set)
    /\ [][\A i \in 1..4 : Fields[i].set => Fields'[i] = Fields[i]]_vars

C11_Witness ==
    /\ requests = 2
    /\ pc = "Recognizing"
    /\ \A f \in DOMAIN built : built[f] = 1
    /\ \A i \in 1..4 : Fields[i].set

(***************************************************************************)
(* Config constructed and read directly: `calls` holds the load and the    *)
(* get that follows it.                                                    *)
(***************************************************************************)
\* BAIDU_APPID, BAIDU_SECRET_KEY and config.json, each key set or not
ConfigEnvironments ==
    {[env |-> [appid |-> a, secret_key |-> k], file |-> f] :
        a \in {"", "env-id"}, k \in {"", "env-key"},
        f \in {[state |-> "absent"], [state |-> "unreadable"]}
              \cup {[state |-> "loaded", baidu_appid |-> fa, baidu_secret_key |-> fk,
                     ocr_language |-> fl] :
                       fa \in {"", "file-id"}, fk \in {"", "file-key"},
                       fl \in {"", "en"}}}

\* Config.get
ConfigGet(self, key, default) ==
    IF key \in DOMAIN self \ {"set"} THEN self[key] ELSE default

\* Config(): __init__ and load_config
NewConfig ==
    /\ ~config.set
    /\ \E e \in ConfigEnvironments :
          LET loaded == LoadConfig(e.env, e.file)
          IN /\ config' = loaded.config
             /\ stdout' = stdout \o loaded.printed
             /\ calls' = <<[op |-> "load_config", arg |-> e, ret |-> loaded.config]>>
    /\ built' = [built EXCEPT !.config = @ + 1]
    /\ UNCHANGED <<ocr, qwen_translator, baidu_translator, pc, result, translations,
                   text_blocks, failed, out, stderr, requests>>

\* config.get(key, default)
CallConfigGet ==
    /\ config.set
    /\ Len(calls) = 1
    /\ \E key \in {"baidu_appid", "baidu_secret_key", "ocr_language", "ocr_engine"} :
          calls' = Append(calls, [op |-> "get", arg |-> key,
                                  ret |-> ConfigGet(config, key, "default")])
    /\ UNCHANGED <<services, pc, result, translations, text_blocks, failed, out,
                   stdout, stderr, requests>>

NextConfig ==
    \/ NewConfig
    \/ CallConfigGet

SpecConfig == Init /\ [][NextConfig]_vars

Loads == {k \in 1..Len(calls) : calls[k].op = "load_config"}

\* C12: a credential supplied non-empty both by its environment variable and
\* by config.json is held by Config with the environment variable's value.
C12_EnvironmentOverFile ==
    \A k \in Loads :
        LET e == calls[k].arg
        IN e.file.state = "loaded" =>
              /\ (e.env.appid # "" /\ e.file.baidu_appid # "")
                    => calls[k].ret.baidu_appid = e.env.appid
              /\ (e.env.secret_key # "" /\ e.file.baidu_secret_key # "")
                    => calls[k].ret.baidu_secret_key = e.env.secret_key

(***************************************************************************)
(* The two string functions of QwenTranslator called directly on strings   *)
(* of characters; `calls` holds the call.                                  *)
(***************************************************************************)
\* strings of at most n characters of the alphabet
StringsUpTo(alphabet, n) == UNION {[1..k -> alphabet] : k \in 0..n}

\* characters of a response: a digit, the parts of a numbering, a letter, a newline
ResponseChars == {"1", ".", " ", "x", "\n"}

\* characters of a translation: the dot of an ellipsis, a letter, a space
TextChars == {".", "a", " "}

\* the results _parse_batch_result collects before it repairs the count
Parsed(response) == ParseLines(Split(Strip(response), <<"\n">>))

\* self._parse_batch_result(result, expected_count)
CallParseBatchResult ==
    /\ calls = <<>>
    /\ \E response \in StringsUpTo(ResponseChars, MaxResponse), expected_count \in 0..MaxItems :
          calls' = <<[op |-> "_parse_batch_result", arg |-> response,
                      expected_count |-> expected_count,
                      ret |-> ParseBatchResult(response, expected_count)]>>
    /\ UNCHANGED <<services, pc, result, translations, text_blocks, failed, out,
                   stdout, stderr, requests>>

\* self._clean_translation(text)
CallCleanTranslation ==
    /\ calls = <<>>
    /\ \E text \in StringsUpTo(TextChars, MaxText) :
          calls' = <<[op |-> "_clean_translation", arg |-> text,
                      ret |-> CleanTranslation(text)]>>
    /\ UNCHANGED <<services, pc, result, translations, text_blocks, failed, out,
                   stdout, stderr, requests>>

NextStrings ==
    \/ CallParseBatchResult
    \/ CallCleanTranslation

SpecStrings == Init /\ [][NextStrings]_vars

ParseCalls == {k \in 1..Len(calls) : calls[k].op = "_parse_batch_result"}

\* C13: _parse_batch_result returns exactly expected_count strings: the parsed
\* results in order, then the "incomplete" placeholder in every remaining slot
\* when fewer were parsed, and only the first expected_count parsed results
\* when more were parsed.
C13_ParseRepairsCount ==
    \A k \in ParseCalls :
        LET c == calls[k]
            parsed == Parsed(c.arg)
        IN /\ Len(c.ret) = c.expected_count
           /\ \A i \in 1..Len(c.ret) :
                 c.ret[i] = IF i <= Len(parsed) THEN parsed[i] ELSE MsgIncomplete

C13_Witness ==
    \E k \in ParseCalls :
        /\ calls[k].expected_count = 2
        /\ Len(Parsed(calls[k].arg)) = 3
        /\ calls[k].ret = <<<<"x">>, <<"x">>>>

C13_WitnessPadded ==
    \E k \in ParseCalls :
        /\ calls[k].expected_count = 2
        /\ Len(Parsed(calls[k].arg)) = 1
        /\ calls[k].ret[2] = MsgIncomplete

\* the texts of a list that are neither empty nor whitespace-only, in order
NonBlank(texts) ==
    LET Keep(t) == ~IsBlank(t)
    IN SelectSeq(texts, Keep)

\* C14: the prompt built by translate_batch lists the non-empty input texts in
\* input order, numbered consecutively 1..k, k the number of non-empty texts.
C14_PromptNumberedConsecutively ==
    \A k \in BatchCalls :
        calls[k].prompts # <<>> =>
            LET kept == NonBlank(calls[k].arg)
            IN calls[k].prompts[1] =
                  Join([n \in 1..Len(kept) |-> Str(n) \o <<".", " ">> \o kept[n]],
                       <<"\n">>)

CleanCalls == {k \in 1..Len(calls) : calls[k].op = "_clean_translation"}

\* C15: _clean_translation cuts a text at its first ellipsis exactly when the
\* whole text after that first ellipsis is longer than 5 characters, and leaves
\* the text otherwise (the result being stripped of surrounding whitespace),
\* for texts with one ellipsis and with several.
C15_TruncatesOnLongRest ==
    \A k \in CleanCalls :
        LET text == calls[k].arg
            at == Find(text, <<".", ".", ".">>)
            rest == SubSeq(text, at + 3, Len(text))
        IN calls[k].ret = IF at # 0 /\ Len(rest) > 5
                          THEN Strip(SubSeq(text, 1, at - 1))
                          ELSE Strip(text)

=============================================================================
